---- MODULE Spec2Model ----
(***************************************************************************)
(* Flight-mode state machine of the quadrotor autopilot                    *)
(* (control/autopilot/src/autopilot.cpp).                                  *)
(*                                                                         *)
(* Every ROS callback of AutoPilot is one action.  Callbacks run to        *)
(* completion on one spinner thread, so an action is a whole callback.     *)
(*                                                                         *)
(* Time.  ros::Time values are integers (one unit = one clock tick).  The  *)
(* code never uses an absolute time, only the differences                  *)
(*   ros::Time::now() - time_of_switch_to_current_state_                   *)
(*   ros::Time::now() - time_started_ramping_down_                         *)
(* so the model keeps these two differences (time_in_current_state,        *)
(* time_ramping_down) instead of the three absolute values.  The clock     *)
(* advances by 1..MaxDt between the previous callback and a state estimate *)
(* callback (by 1..MaxGap in TakeoffSpec, whose stream of estimates has    *)
(* gaps); the other callbacks run at the clock value of the latest         *)
(* estimate.  time_in_current_state saturates at TimeCap, which is larger  *)
(* than every duration the code compares it with; time_ramping_down        *)
(* saturates at propeller_ramp_down_timeout_, from where on the ramp is at *)
(* or below zero thrust.                                                   *)
(*                                                                         *)
(* Thrust is an integer in units of 4.905 m/s^2, so that the hover thrust   *)
(* 9.81 of RC_MANUAL is 2.  The thrust of the ramp is rounded up to the    *)
(* next unit, which keeps its sign and its order (see rampDownThrust).     *)
(* Altitude is a small integer.  A pose (position and heading) is          *)
(* represented by its z component, the only component the autopilot reads  *)
(* or writes on its own: x, y and the heading of reference_state_ are      *)
(* written only together with z, from the same estimate, in the first-time *)
(* blocks of start(), hover() and land().                                  *)
(***************************************************************************)
EXTENDS Integers, FiniteSets, Sequences, TLC

----------------------------------------------------------------------------
(* enum class States *)
OFF == "OFF"
START == "START"
HOVER == "HOVER"
LAND == "LAND"
EMERGENCY_LAND == "EMERGENCY_LAND"
BREAKING == "BREAKING"
GO_TO_POSE == "GO_TO_POSE"
VELOCITY_CONTROL == "VELOCITY_CONTROL"
REFERENCE_CONTROL == "REFERENCE_CONTROL"
TRAJECTORY_CONTROL == "TRAJECTORY_CONTROL"
COMMAND_FEEDTHROUGH == "COMMAND_FEEDTHROUGH"
RC_MANUAL == "RC_MANUAL"

States ==
  {OFF, START, HOVER, LAND, EMERGENCY_LAND, BREAKING, GO_TO_POSE,
   VELOCITY_CONTROL, REFERENCE_CONTROL, TRAJECTORY_CONTROL,
   COMMAND_FEEDTHROUGH, RC_MANUAL}

(* QuadStateEstimate::CoordinateFrame *)
AbsoluteFrames == {"WORLD", "OPTITRACK"}
RelativeFrames == {"VISION", "LOCAL"}
CoordinateFrames == AbsoluteFrames \cup RelativeFrames \cup {"UNKNOWN"}

----------------------------------------------------------------------------
(* Bounds of the model *)
MaxDt == 1
TimeCap == 5
MaxAltitude == 1
MaxGap == 3

(* Parameters read by loadParameters() *)
optitrack_land_drop_height_ == 1
optitrack_start_land_timeout_ == 4
optitrack_start_height_ == 2
start_idle_duration_ == 2
idle_thrust_ == 1
start_land_velocity_ == 2
propeller_ramp_down_timeout_ == 2

(* collective_thrust = 9.81 in RC_MANUAL *)
RcManualThrust == 2

Altitudes == 0..MaxAltitude
Durations == 1..MaxDt

(* The time between two state estimates when the stream has gaps *)
Gaps == 1..MaxGap

(* Thrusts a command can carry when it comes from outside the autopilot    *)
ThrustValues == {-2, 0, 2}

----------------------------------------------------------------------------
(* quadrotor_common::ControlCommand, reduced to the fields the autopilot   *)
(* reads or writes: control_mode, armed, bodyrates and collective_thrust.  *)
(* bodyrates is "ZERO" for Eigen::Vector3d::Zero(), otherwise the name of  *)
(* whoever computed it.                                                    *)

(* ControlCommand(): the control mode of a fresh command is NONE *)
DefaultCommand ==
  [control_mode |-> "NONE", armed |-> FALSE, bodyrates |-> "ZERO",
   collective_thrust |-> 0]

(* ControlCommand::zero() *)
ZeroCommand ==
  [control_mode |-> "BODY_RATES", armed |-> FALSE, bodyrates |-> "ZERO",
   collective_thrust |-> 0]

(* What base_controller_.run() may return: any control mode, any thrust *)
BaseControllerCommands ==
  [control_mode : {"NONE", "BODY_RATES"}, armed : {TRUE},
   bodyrates : {"CONTROLLER"}, collective_thrust : ThrustValues]

(* Messages on autopilot/control_command_input *)
InputCommands ==
  {[control_mode |-> m, armed |-> TRUE, bodyrates |-> "EXTERNAL",
    collective_thrust |-> 2] : m \in {"NONE", "BODY_RATES"}}

(* Messages on autopilot/state_estimate: isValid() and coordinate_frame.   *)
(* Of the two absolute frames only WORLD is drawn: every test of the frame *)
(* (lines 216-219 and 262-266) reads WORLD || OPTITRACK.                   *)
StateEstimates ==
  [valid : {TRUE}, coordinate_frame : {"WORLD"} \cup RelativeFrames]
    \cup [valid : {FALSE}, coordinate_frame : {"WORLD"}]

(* What state_predictor_.predictState() may return *)
PredictedStates == [z : Altitudes]

(* quadrotor_common::TrajectoryPoint() *)
DefaultTrajectoryPoint == [z |-> 0]

NoTransmission == [by |-> "none", cmd |-> DefaultCommand]

----------------------------------------------------------------------------
VARIABLES
  autopilot_state_,
  state_before_rc_manual_flight_,
  received_state_est_,
  state_estimate_available_,
  first_time_in_new_state_,
  time_to_ramp_down_,
  time_in_current_state,   \* now - time_of_switch_to_current_state_
  time_ramping_down,       \* now - time_started_ramping_down_
  reference_state_,
  initial_start_position_,
  initial_land_position_,
  initial_drop_thrust_,
  \* what the last callback did
  callback,                \* the callback that ran last
  entry_state,             \* autopilot_state_ when it began
  feedback_rc_manual,      \* msg->control_mode == RC_MANUAL of the last feedback
  first_time_estimate,     \* the estimate the first-time block used, if it ran
  controller_input,        \* the reference handed to base_controller_.run()
  transmitted,             \* what went out on control_command
  reference_current,       \* reference_state_ was overwritten in this stay
  land_thrust,             \* the thrust land() tested at line 409, if it ran
  start_time               \* timeInCurrentState() at line 316, if start() ran

vars ==
  <<autopilot_state_, state_before_rc_manual_flight_, received_state_est_,
    state_estimate_available_, first_time_in_new_state_, time_to_ramp_down_,
    time_in_current_state, time_ramping_down, reference_state_,
    initial_start_position_, initial_land_position_, initial_drop_thrust_,
    callback, entry_state, feedback_rc_manual,
    first_time_estimate, controller_input, transmitted,
    reference_current, land_thrust, start_time>>

NoEstimate == [used |-> FALSE, z |-> 0]

NoThrust == [tested |-> FALSE, value |-> 0]

NoTime == [tested |-> FALSE, value |-> 0]

----------------------------------------------------------------------------
Saturate(d, cap) == IF d > cap THEN cap ELSE d

Max(a, b) == IF a >= b THEN a ELSE b

(* The object and the locals of the running callback, as one record *)
Current ==
  [state |-> autopilot_state_,
   before |-> state_before_rc_manual_flight_,
   est |-> received_state_est_,
   avail |-> state_estimate_available_,
   first |-> first_time_in_new_state_,
   ramp |-> time_to_ramp_down_,
   t |-> time_in_current_state,
   r |-> time_ramping_down,
   ref |-> reference_state_,
   start_z |-> initial_start_position_,
   land_z |-> initial_land_position_,
   drop_thrust |-> initial_drop_thrust_,
   cmd |-> DefaultCommand,
   first_est |-> NoEstimate,
   ctrl_in |-> "none",
   tx |-> NoTransmission,
   fb |-> "none",
   ref_cur |-> reference_current,
   thrust |-> NoThrust,
   time |-> NoTime]

(* End of a callback: the record becomes the object's state *)
Commit(s, name) ==
  /\ autopilot_state_' = s.state
  /\ state_before_rc_manual_flight_' = s.before
  /\ received_state_est_' = s.est
  /\ state_estimate_available_' = s.avail
  /\ first_time_in_new_state_' = s.first
  /\ time_to_ramp_down_' = s.ramp
  /\ time_in_current_state' = s.t
  /\ time_ramping_down' = s.r
  /\ reference_state_' = s.ref
  /\ initial_start_position_' = s.start_z
  /\ initial_land_position_' = s.land_z
  /\ initial_drop_thrust_' = s.drop_thrust
  /\ callback' = name
  /\ entry_state' = autopilot_state_
  /\ first_time_estimate' = s.first_est
  /\ controller_input' = s.ctrl_in
  /\ transmitted' = s.tx
  /\ feedback_rc_manual' = s.fb
  /\ reference_current' = (s.state = autopilot_state_ /\ s.ref_cur)
  /\ land_thrust' = s.thrust
  /\ start_time' = s.time

----------------------------------------------------------------------------
(* Mutant: the first-time latch is not set again *)
setAutoPilotState_KeepsLatch(s, new_state) ==
  [s EXCEPT !.t = 0,
            !.before = IF new_state = RC_MANUAL THEN OFF ELSE @,
            !.state = new_state]

(* AutoPilot::setAutoPilotState *)
setAutoPilotState(s, new_state) ==
  [s EXCEPT !.t = 0,
            !.first = TRUE,
            !.before = IF new_state = RC_MANUAL THEN OFF ELSE @,
            !.state = new_state]

(* AutoPilot::timeInCurrentState *)
timeInCurrentState(s) == s.t

(* Mutant: a command with control mode NONE is published as well *)
publishControlCommand_PublishesNone(s, control_cmd) ==
  [s EXCEPT !.tx = [by |-> "tick", cmd |-> control_cmd],
            !.drop_thrust = control_cmd.collective_thrust]

(* AutoPilot::publishControlCommand *)
publishControlCommand(s, control_cmd) ==
  IF control_cmd.control_mode = "NONE"
  THEN s
  ELSE [s EXCEPT !.tx = [by |-> "tick", cmd |-> control_cmd],
                 !.drop_thrust = control_cmd.collective_thrust]

(* base_controller_.run(state_estimate, reference_state_, params) *)
baseControllerRun(s, bc) ==
  [s EXCEPT !.cmd = bc,
            !.ctrl_in = IF s.ref_cur THEN "current" ELSE "stale"]

(* The first-time block of start(), hover() and land(): lines 304-309,      *)
(* 352-356 and 372-377                                                      *)
initReferenceState(s, state_estimate) ==
  [s EXCEPT !.first = FALSE,
            !.ref = [DefaultTrajectoryPoint EXCEPT !.z = state_estimate.z],
            !.first_est = [used |-> TRUE, z |-> state_estimate.z],
            !.ref_cur = TRUE]

(* The fixed command of the idle window of start(), lines 326-329 *)
IdleCommand ==
  [control_mode |-> "BODY_RATES", armed |-> TRUE, bodyrates |-> "ZERO",
   collective_thrust |-> idle_thrust_]

(* Mutant: start() does not compare the reference with the start height *)
start_WithoutHeight(s, state_estimate, bc) ==
  LET s0 == IF s.first
            THEN LET a == [initReferenceState(s, state_estimate) EXCEPT
                             !.start_z = state_estimate.z]
                 IN  IF state_estimate.z >= optitrack_land_drop_height_
                     THEN setAutoPilotState(a, HOVER)
                     ELSE a
            ELSE s
      s1 == [s0 EXCEPT !.time = [tested |-> TRUE,
                                 value |-> timeInCurrentState(s0)]]
  IN  IF timeInCurrentState(s1) > optitrack_start_land_timeout_
      THEN baseControllerRun(setAutoPilotState(s1, HOVER), bc)
      ELSE IF timeInCurrentState(s1) < start_idle_duration_
           THEN [s1 EXCEPT !.cmd = IdleCommand]
           ELSE baseControllerRun(
                  [s1 EXCEPT
                     !.ref.z = s1.start_z + start_land_velocity_
                                 * (timeInCurrentState(s1) - start_idle_duration_)],
                  bc)

(* AutoPilot::start *)
start(s, state_estimate, bc) ==
  LET s0 == IF s.first
            THEN LET a == [initReferenceState(s, state_estimate) EXCEPT
                             !.start_z = state_estimate.z]
                 IN  IF state_estimate.z >= optitrack_land_drop_height_
                     THEN setAutoPilotState(a, HOVER)
                     ELSE a
            ELSE s
      s1 == [s0 EXCEPT !.time = [tested |-> TRUE,
                                 value |-> timeInCurrentState(s0)]]
  IN  IF \/ timeInCurrentState(s1) > optitrack_start_land_timeout_
         \/ s1.ref.z >= optitrack_start_height_
      THEN baseControllerRun(setAutoPilotState(s1, HOVER), bc)
      ELSE IF timeInCurrentState(s1) < start_idle_duration_
           THEN [s1 EXCEPT !.cmd = IdleCommand]
           ELSE baseControllerRun(
                  [s1 EXCEPT
                     !.ref.z = s1.start_z + start_land_velocity_
                                 * (timeInCurrentState(s1) - start_idle_duration_)],
                  bc)

(* Mutant: the reference follows the estimate in every callback *)
hover_FollowsEstimate(s, state_estimate, bc) ==
  baseControllerRun(initReferenceState(s, state_estimate), bc)

(* AutoPilot::hover *)
hover(s, state_estimate, bc) ==
  baseControllerRun(
    IF s.first THEN initReferenceState(s, state_estimate) ELSE s, bc)

(* The thrust of the ramp, lines 404-406:                                   *)
(*   initial_drop_thrust_ - initial_drop_thrust_ / timeout * elapsed        *)
(* in whole units: the subtracted part is rounded down.  For a positive     *)
(* initial_drop_thrust_ the result is positive and at most                  *)
(* initial_drop_thrust_ while elapsed < timeout, and at most 0 from         *)
(* elapsed = timeout on, as in the code.                                    *)
rampDownThrust(drop_thrust, elapsed) ==
  drop_thrust - (drop_thrust * elapsed) \div propeller_ramp_down_timeout_

(* Mutant: the ramp is latched by the altitude only, never by the timeout *)
land_WithoutTimeout(s, state_estimate, bc) ==
  LET s1 == IF s.first
            THEN [initReferenceState(s, state_estimate) EXCEPT
                    !.land_z = state_estimate.z,
                    !.ramp = FALSE]
            ELSE s
      s2 == baseControllerRun(
              [s1 EXCEPT
                 !.ref.z = Max(0, s1.land_z
                                    - start_land_velocity_ * timeInCurrentState(s1))],
              bc)
      s3 == IF ~s2.ramp /\ state_estimate.z < optitrack_land_drop_height_
            THEN [s2 EXCEPT !.ramp = TRUE, !.r = 0]
            ELSE s2
      s4 == IF s3.ramp
            THEN [s3 EXCEPT !.cmd.collective_thrust =
                              rampDownThrust(s3.drop_thrust, s3.r)]
            ELSE s3
      s5 == [s4 EXCEPT !.thrust = [tested |-> TRUE,
                                   value |-> s4.cmd.collective_thrust]]
  IN  IF s5.cmd.collective_thrust <= 0
      THEN [setAutoPilotState(s5, OFF) EXCEPT !.cmd = ZeroCommand]
      ELSE s5

(* Mutant: a thrust of exactly zero does not end the landing *)
land_OffBelowZeroOnly(s, state_estimate, bc) ==
  LET s1 == IF s.first
            THEN [initReferenceState(s, state_estimate) EXCEPT
                    !.land_z = state_estimate.z,
                    !.ramp = FALSE]
            ELSE s
      s2 == baseControllerRun(
              [s1 EXCEPT
                 !.ref.z = Max(0, s1.land_z
                                    - start_land_velocity_ * timeInCurrentState(s1))],
              bc)
      s3 == IF /\ ~s2.ramp
               /\ \/ state_estimate.z < optitrack_land_drop_height_
                  \/ timeInCurrentState(s2) > optitrack_start_land_timeout_
            THEN [s2 EXCEPT !.ramp = TRUE, !.r = 0]
            ELSE s2
      s4 == IF s3.ramp
            THEN [s3 EXCEPT !.cmd.collective_thrust =
                              rampDownThrust(s3.drop_thrust, s3.r)]
            ELSE s3
      s5 == [s4 EXCEPT !.thrust = [tested |-> TRUE,
                                   value |-> s4.cmd.collective_thrust]]
  IN  IF s5.cmd.collective_thrust < 0
      THEN [setAutoPilotState(s5, OFF) EXCEPT !.cmd = ZeroCommand]
      ELSE s5

(* Mutant: the latched ramp does not replace the controller's thrust *)
land_KeepsControllerThrust(s, state_estimate, bc) ==
  LET s1 == IF s.first
            THEN [initReferenceState(s, state_estimate) EXCEPT
                    !.land_z = state_estimate.z,
                    !.ramp = FALSE]
            ELSE s
      s2 == baseControllerRun(
              [s1 EXCEPT
                 !.ref.z = Max(0, s1.land_z
                                    - start_land_velocity_ * timeInCurrentState(s1))],
              bc)
      s3 == IF /\ ~s2.ramp
               /\ \/ state_estimate.z < optitrack_land_drop_height_
                  \/ timeInCurrentState(s2) > optitrack_start_land_timeout_
            THEN [s2 EXCEPT !.ramp = TRUE, !.r = 0]
            ELSE s2
      s5 == [s3 EXCEPT !.thrust = [tested |-> TRUE,
                                   value |-> s3.cmd.collective_thrust]]
  IN  IF s5.cmd.collective_thrust <= 0
      THEN [setAutoPilotState(s5, OFF) EXCEPT !.cmd = ZeroCommand]
      ELSE s5

(* AutoPilot::land *)
land(s, state_estimate, bc) ==
  LET s1 == IF s.first
            THEN [initReferenceState(s, state_estimate) EXCEPT
                    !.land_z = state_estimate.z,
                    !.ramp = FALSE]
            ELSE s
      s2 == baseControllerRun(
              [s1 EXCEPT
                 !.ref.z = Max(0, s1.land_z
                                    - start_land_velocity_ * timeInCurrentState(s1))],
              bc)
      s3 == IF /\ ~s2.ramp
               /\ \/ state_estimate.z < optitrack_land_drop_height_
                  \/ timeInCurrentState(s2) > optitrack_start_land_timeout_
            THEN [s2 EXCEPT !.ramp = TRUE, !.r = 0]
            ELSE s2
      s4 == IF s3.ramp
            THEN [s3 EXCEPT !.cmd.collective_thrust =
                              rampDownThrust(s3.drop_thrust, s3.r)]
            ELSE s3
      s5 == [s4 EXCEPT !.thrust = [tested |-> TRUE,
                                   value |-> s4.cmd.collective_thrust]]
  IN  IF s5.cmd.collective_thrust <= 0
      THEN [setAutoPilotState(s5, OFF) EXCEPT !.cmd = ZeroCommand]
      ELSE s5

----------------------------------------------------------------------------
(* Mutant: an invalid estimate still counts as available *)
checkStateEstimate_KeepsAvailable(s, msg) ==
  LET s1 == [s EXCEPT !.avail = TRUE, !.est = msg]
  IN  IF ~msg.valid /\ s1.state # OFF /\ s1.state # EMERGENCY_LAND
      THEN setAutoPilotState(s1, EMERGENCY_LAND)
      ELSE s1

(* Mutant: an invalid estimate triggers the emergency landing in OFF too *)
checkStateEstimate_EmergencyInOff(s, msg) ==
  LET s1 == [s EXCEPT !.avail = TRUE, !.est = msg]
  IN  IF ~msg.valid
      THEN LET s2 == [s1 EXCEPT !.avail = FALSE]
           IN  IF s2.state # EMERGENCY_LAND
               THEN setAutoPilotState(s2, EMERGENCY_LAND)
               ELSE s2
      ELSE s1

(* stateEstimateCallback, lines 66-80: store the estimate, check it *)
checkStateEstimate(s, msg) ==
  LET s1 == [s EXCEPT !.avail = TRUE, !.est = msg]
  IN  IF ~msg.valid
      THEN LET s2 == [s1 EXCEPT !.avail = FALSE]
           IN  IF s2.state # OFF /\ s2.state # EMERGENCY_LAND
               THEN setAutoPilotState(s2, EMERGENCY_LAND)
               ELSE s2
      ELSE s1

(* Mutant: EMERGENCY_LAND does not recover *)
computeControlCommand_NoRecovery(s, predicted_state, bc) ==
  CASE s.state = OFF -> [s EXCEPT !.cmd = ZeroCommand]
    [] s.state = START -> start(s, predicted_state, bc)
    [] s.state = HOVER -> hover(s, predicted_state, bc)
    [] s.state = LAND -> land(s, predicted_state, bc)
    [] s.state = RC_MANUAL ->
         [s EXCEPT !.cmd = [ZeroCommand EXCEPT
                              !.armed = TRUE,
                              !.collective_thrust = RcManualThrust]]
    [] OTHER -> s

(* Mutant: COMMAND_FEEDTHROUGH recovers to HOVER as EMERGENCY_LAND does *)
computeControlCommand_FeedthroughRecovers(s, predicted_state, bc) ==
  CASE s.state = OFF -> [s EXCEPT !.cmd = ZeroCommand]
    [] s.state = START -> start(s, predicted_state, bc)
    [] s.state = HOVER -> hover(s, predicted_state, bc)
    [] s.state = LAND -> land(s, predicted_state, bc)
    [] s.state \in {EMERGENCY_LAND, COMMAND_FEEDTHROUGH} ->
         IF s.avail THEN setAutoPilotState(s, HOVER) ELSE s
    [] s.state = RC_MANUAL ->
         [s EXCEPT !.cmd = [ZeroCommand EXCEPT
                              !.armed = TRUE,
                              !.collective_thrust = RcManualThrust]]
    [] OTHER -> s

(* stateEstimateCallback, lines 95-137: the switch on autopilot_state_ *)
computeControlCommand(s, predicted_state, bc) ==
  CASE s.state = OFF -> [s EXCEPT !.cmd = ZeroCommand]
    [] s.state = START -> start(s, predicted_state, bc)
    [] s.state = HOVER -> hover(s, predicted_state, bc)
    [] s.state = LAND -> land(s, predicted_state, bc)
    [] s.state = EMERGENCY_LAND ->
         IF s.avail THEN setAutoPilotState(s, HOVER) ELSE s
    [] s.state = RC_MANUAL ->
         [s EXCEPT !.cmd = [ZeroCommand EXCEPT
                              !.armed = TRUE,
                              !.collective_thrust = RcManualThrust]]
    [] OTHER -> s

(* stateEstimateCallback, lines 139-144 *)
publishUnlessFeedthrough(s) ==
  IF s.state # COMMAND_FEEDTHROUGH
  THEN publishControlCommand(s, s.cmd)
  ELSE s

(* The clock has advanced by dt since the previous callback *)
Elapse(s, dt) ==
  [s EXCEPT !.t = Saturate(@ + dt, TimeCap),
            !.r = Saturate(@ + dt, propeller_ramp_down_timeout_)]

(* AutoPilot::stateEstimateCallback *)
stateEstimateCallback(s, msg, predicted_state, bc) ==
  publishUnlessFeedthrough(
    computeControlCommand(checkStateEstimate(s, msg), predicted_state, bc))

(* Mutant: the mode that manual flight interrupts is remembered *)
lowLevelFeedbackCallback_RemembersMode(s, rc_manual) ==
  LET s1 == IF rc_manual /\ s.state # RC_MANUAL
            THEN [s EXCEPT !.before = s.state, !.state = RC_MANUAL]
            ELSE s
  IN  IF ~rc_manual /\ s1.state = RC_MANUAL
      THEN IF s1.before = OFF
           THEN [s1 EXCEPT !.state = OFF]
           ELSE [s1 EXCEPT !.state = BREAKING]
      ELSE s1

(* Mutant: the hand-back always resumes BREAKING *)
lowLevelFeedbackCallback_ResumesBreaking(s, rc_manual) ==
  LET s1 == IF rc_manual /\ s.state # RC_MANUAL
            THEN [s EXCEPT !.state = RC_MANUAL]
            ELSE s
  IN  IF ~rc_manual /\ s1.state = RC_MANUAL
      THEN [s1 EXCEPT !.state = BREAKING]
      ELSE s1

(* AutoPilot::lowLevelFeedbackCallback *)
lowLevelFeedbackCallback(s, rc_manual) ==
  LET s1 == IF rc_manual /\ s.state # RC_MANUAL
            THEN [s EXCEPT !.state = RC_MANUAL]
            ELSE s
  IN  IF ~rc_manual /\ s1.state = RC_MANUAL
      THEN IF s1.before = OFF
           THEN [s1 EXCEPT !.state = OFF]
           ELSE [s1 EXCEPT !.state = BREAKING]
      ELSE s1

(* Mutant: a control command input is accepted in every mode *)
controlCommandInputCallback_InEveryMode(s, msg) ==
  LET s1 == IF s.state # COMMAND_FEEDTHROUGH
            THEN [s EXCEPT !.state = COMMAND_FEEDTHROUGH]
            ELSE s
  IN  [s1 EXCEPT !.tx = [by |-> "input", cmd |-> msg]]

(* AutoPilot::controlCommandInputCallback *)
controlCommandInputCallback(s, msg) ==
  IF s.state # OFF /\ s.state # HOVER
  THEN s
  ELSE LET s1 == IF s.state # COMMAND_FEEDTHROUGH
                 THEN [s EXCEPT !.state = COMMAND_FEEDTHROUGH]
                 ELSE s
       IN  [s1 EXCEPT !.tx = [by |-> "input", cmd |-> msg]]

(* Mutant: the start request does not ask for an available estimate *)
startCallback_WithoutEstimate(s) ==
  IF s.state = OFF
  THEN IF s.est.coordinate_frame \in {"WORLD", "OPTITRACK"}
       THEN setAutoPilotState(s, START)
       ELSE IF s.est.coordinate_frame \in {"VISION", "LOCAL"}
            THEN setAutoPilotState(s, HOVER)
            ELSE s
  ELSE s

(* AutoPilot::startCallback *)
startCallback(s) ==
  IF s.state = OFF
  THEN IF s.avail
       THEN IF s.est.coordinate_frame \in {"WORLD", "OPTITRACK"}
            THEN setAutoPilotState(s, START)
            ELSE IF s.est.coordinate_frame \in {"VISION", "LOCAL"}
                 THEN setAutoPilotState(s, HOVER)
                 ELSE s
       ELSE s
  ELSE s

(* Mutant: every available estimate is good for a controlled landing *)
landCallback_LandsInRelativeFrame(s) ==
  IF s.state \in {OFF, LAND, EMERGENCY_LAND, COMMAND_FEEDTHROUGH, RC_MANUAL}
  THEN s
  ELSE IF s.avail
       THEN setAutoPilotState(s, LAND)
       ELSE setAutoPilotState(s, EMERGENCY_LAND)

(* AutoPilot::landCallback *)
landCallback(s) ==
  IF s.state \in {OFF, LAND, EMERGENCY_LAND, COMMAND_FEEDTHROUGH, RC_MANUAL}
  THEN s
  ELSE IF s.avail
       THEN IF s.est.coordinate_frame \in {"WORLD", "OPTITRACK"}
            THEN setAutoPilotState(s, LAND)
            ELSE setAutoPilotState(s, EMERGENCY_LAND)
       ELSE setAutoPilotState(s, EMERGENCY_LAND)

(* Mutant: the off request is ignored during manual flight *)
offCallback_NotInManual(s) ==
  IF s.state # OFF /\ s.state # RC_MANUAL
  THEN [setAutoPilotState(s, OFF) EXCEPT !.before = OFF]
  ELSE s

(* AutoPilot::offCallback *)
offCallback(s) ==
  IF s.state # OFF
  THEN [setAutoPilotState(s, OFF) EXCEPT !.before = OFF]
  ELSE s

----------------------------------------------------------------------------
(* The constructor *)
Init ==
  /\ autopilot_state_ = OFF
  /\ state_before_rc_manual_flight_ = OFF
  /\ received_state_est_ = [valid |-> FALSE, coordinate_frame |-> "UNKNOWN"]
  /\ state_estimate_available_ = FALSE
  /\ first_time_in_new_state_ = TRUE
  /\ time_to_ramp_down_ = FALSE
  /\ time_in_current_state = TimeCap
  /\ time_ramping_down = propeller_ramp_down_timeout_
  /\ reference_state_ = DefaultTrajectoryPoint
  \* not initialized by the constructor; start() and land() write them in
  \* the first-time block before they read them
  /\ initial_start_position_ = 0
  /\ initial_land_position_ = 0
  \* not initialized by the constructor; land() may read it before any
  \* command has been published
  /\ initial_drop_thrust_ \in ThrustValues
  /\ callback = "constructor"
  /\ entry_state = OFF
  /\ feedback_rc_manual = "none"
  /\ first_time_estimate = NoEstimate
  /\ controller_input = "none"
  /\ transmitted = NoTransmission
  /\ reference_current = FALSE
  /\ land_thrust = NoThrust
  /\ start_time = NoTime

DefaultPrediction == [z |-> 0]

(* The modes whose step reads the prediction and may run the controller *)
ControllerStates == {START, HOVER, LAND}

(* The predictions that differ in what the switch reads of them: start(),  *)
(* hover() and land() read the pose in the first-time block, land() reads  *)
(* the altitude in every callback, the other cases nothing.                *)
PredictionsRead(s) ==
  IF s.state \in ControllerStates /\ (s.first \/ s.state = LAND)
  THEN PredictedStates
  ELSE {DefaultPrediction}

(* What the base controller may return where the switch runs it *)
ControllerCommandsRead(s) ==
  IF s.state \in ControllerStates
  THEN BaseControllerCommands
  ELSE {DefaultCommand}

(* The state estimate callback for the message msg, dt after the previous *)
(* callback                                                                *)
StateEstimateAfter(msg, dt) ==
  LET s1 == Elapse(Current, dt)
      s2 == checkStateEstimate(s1, msg)
  IN  \E predicted_state \in PredictionsRead(s2),
         bc \in ControllerCommandsRead(s2) :
        Commit(stateEstimateCallback(s1, msg, predicted_state, bc),
               "stateEstimate")

StateEstimate ==
  \E msg \in StateEstimates, dt \in Durations : StateEstimateAfter(msg, dt)

LowLevelFeedback ==
  \E rc_manual \in BOOLEAN :
    Commit([lowLevelFeedbackCallback(Current, rc_manual) EXCEPT
              !.fb = IF rc_manual THEN "RC_MANUAL" ELSE "AUTONOMOUS"],
           "lowLevelFeedback")

ControlCommandInput ==
  \E msg \in InputCommands :
    Commit(controlCommandInputCallback(Current, msg), "controlCommandInput")

StartRequest == Commit(startCallback(Current), "start")

LandRequest == Commit(landCallback(Current), "land")

OffRequest == Commit(offCallback(Current), "off")

(* poseCommandCallback, velocityCommandCallback, referenceStateCallback and *)
(* trajectoryCallback have empty bodies: they are stuttering steps.         *)

Next ==
  \/ StateEstimate
  \/ LowLevelFeedback
  \/ ControlCommandInput
  \/ StartRequest
  \/ LandRequest
  \/ OffRequest

Spec == Init /\ [][Next]_vars

----------------------------------------------------------------------------
(* A takeoff: the estimator keeps sending valid estimates, with gaps of up *)
(* to MaxGap in the stream, and the only requests are start requests.      *)
ValidStateEstimates == {msg \in StateEstimates : msg.valid}

ValidStateEstimate ==
  \E msg \in ValidStateEstimates, dt \in Gaps : StateEstimateAfter(msg, dt)

TakeoffNext ==
  \/ ValidStateEstimate
  \/ StartRequest

TakeoffSpec == Init /\ [][TakeoffNext]_vars

TypeOK ==
  /\ autopilot_state_ \in States
  /\ state_before_rc_manual_flight_ \in States
  /\ state_estimate_available_ \in BOOLEAN
  /\ first_time_in_new_state_ \in BOOLEAN
  /\ time_to_ramp_down_ \in BOOLEAN
  /\ time_in_current_state \in 0..TimeCap
  /\ time_ramping_down \in 0..propeller_ramp_down_timeout_

----------------------------------------------------------------------------
(* The value of autopilot_state_ the switch of the last state estimate     *)
(* callback dispatched on                                                   *)
DispatchState ==
  IF ~received_state_est_.valid /\ entry_state \notin {OFF, EMERGENCY_LAND}
  THEN EMERGENCY_LAND
  ELSE entry_state

(* C1: a state estimate callback that receives an invalid estimate while   *)
(* the mode is neither OFF nor EMERGENCY_LAND ends in EMERGENCY_LAND: the  *)
(* switch of that callback does not move on to another mode.               *)
C1_InvalidEstimateEndsInEmergencyLand ==
  (/\ callback = "stateEstimate"
   /\ ~received_state_est_.valid
   /\ entry_state \notin {OFF, EMERGENCY_LAND})
    => autopilot_state_ = EMERGENCY_LAND

C1_Witness ==
  /\ callback = "stateEstimate"
  /\ ~received_state_est_.valid
  /\ entry_state = HOVER
  /\ autopilot_state_ = EMERGENCY_LAND

(* C2: the state estimate callback transmits a command only if its control *)
(* mode is not NONE; a state estimate callback that runs in                *)
(* COMMAND_FEEDTHROUGH transmits nothing; whatever is transmitted by a     *)
(* callback that begins or ends in COMMAND_FEEDTHROUGH comes from the      *)
(* control command input callback.                                         *)
C2_TickPublishesOnlyRealCommands ==
  /\ transmitted.by = "tick"
       => /\ callback = "stateEstimate"
          /\ transmitted.cmd.control_mode # "NONE"
  /\ (callback = "stateEstimate" /\ entry_state = COMMAND_FEEDTHROUGH)
       => transmitted = NoTransmission
  /\ (/\ transmitted # NoTransmission
      /\ COMMAND_FEEDTHROUGH \in {entry_state, autopilot_state_})
       => (callback = "controlCommandInput" /\ transmitted.by = "input")

C2_Witness ==
  /\ callback = "stateEstimate"
  /\ entry_state = COMMAND_FEEDTHROUGH
  /\ autopilot_state_ = EMERGENCY_LAND
  /\ transmitted = NoTransmission

(* C3: a control command input is accepted exactly when the mode is OFF,   *)
(* HOVER or COMMAND_FEEDTHROUGH: then the mode is COMMAND_FEEDTHROUGH      *)
(* afterwards and the command is transmitted; in every other mode nothing  *)
(* is transmitted and the mode is unchanged.                               *)
C3_InputAcceptedInOffHoverFeedthrough ==
  callback = "controlCommandInput"
    => IF entry_state \in {OFF, HOVER, COMMAND_FEEDTHROUGH}
       THEN /\ autopilot_state_ = COMMAND_FEEDTHROUGH
            /\ transmitted.by = "input"
       ELSE /\ autopilot_state_ = entry_state
            /\ transmitted = NoTransmission

(* C4: a start request changes the mode only in OFF with an available      *)
(* estimate, which is one whose last received estimate was valid: to START *)
(* in frame WORLD or OPTITRACK, to HOVER in frame VISION or LOCAL.         *)
C4_StartOnlyFromOffWithEstimate ==
  /\ state_estimate_available_ = received_state_est_.valid
  /\ callback = "start"
       => autopilot_state_ =
            IF entry_state = OFF /\ state_estimate_available_
            THEN IF received_state_est_.coordinate_frame \in AbsoluteFrames
                 THEN START
                 ELSE IF received_state_est_.coordinate_frame \in RelativeFrames
                      THEN HOVER
                      ELSE entry_state
            ELSE entry_state

C4_Witness ==
  /\ callback = "start"
  /\ entry_state = OFF
  /\ state_estimate_available_
  /\ received_state_est_.coordinate_frame = "VISION"
  /\ autopilot_state_ = HOVER

(* C5: a land request leaves the mode unchanged in OFF, LAND,              *)
(* EMERGENCY_LAND, COMMAND_FEEDTHROUGH and RC_MANUAL; in every other mode  *)
(* it gives LAND with an available estimate in frame WORLD or OPTITRACK    *)
(* and EMERGENCY_LAND with an available estimate in another frame or with  *)
(* no available estimate.                                                  *)
C5_LandRequest ==
  callback = "land"
    => autopilot_state_ =
         IF entry_state \in {OFF, LAND, EMERGENCY_LAND, COMMAND_FEEDTHROUGH,
                             RC_MANUAL}
         THEN entry_state
         ELSE IF /\ state_estimate_available_
                 /\ received_state_est_.coordinate_frame \in AbsoluteFrames
              THEN LAND
              ELSE EMERGENCY_LAND

C5_Witness ==
  /\ callback = "land"
  /\ entry_state = HOVER
  /\ state_estimate_available_
  /\ received_state_est_.coordinate_frame = "LOCAL"
  /\ autopilot_state_ = EMERGENCY_LAND

(* C6: after an off request, handled in any mode, the mode is OFF and the  *)
(* remembered mode before manual flight is OFF.                            *)
C6_OffRequest ==
  callback = "off"
    => /\ autopilot_state_ = OFF
       /\ state_before_rc_manual_flight_ = OFF

C6_Witness ==
  /\ callback = "off"
  /\ entry_state = RC_MANUAL
  /\ autopilot_state_ = OFF

(* C7: low level feedback is edge triggered: manual feedback outside       *)
(* RC_MANUAL gives RC_MANUAL; not-manual feedback in RC_MANUAL gives OFF   *)
(* if the remembered mode before manual flight is OFF and BREAKING         *)
(* otherwise; every other feedback leaves the mode unchanged.              *)
C7_FeedbackEdges ==
  callback = "lowLevelFeedback"
    => autopilot_state_ =
         IF feedback_rc_manual = "RC_MANUAL" /\ entry_state # RC_MANUAL
         THEN RC_MANUAL
         ELSE IF feedback_rc_manual # "RC_MANUAL" /\ entry_state = RC_MANUAL
              THEN IF state_before_rc_manual_flight_ = OFF
                   THEN OFF
                   ELSE BREAKING
              ELSE entry_state

C7_Witness ==
  /\ callback = "lowLevelFeedback"
  /\ feedback_rc_manual = "AUTONOMOUS"
  /\ entry_state = RC_MANUAL
  /\ autopilot_state_ = OFF

(* C8: every callback that changes the mode also sets the first-time latch *)
(* and restarts the time in the current state.                             *)
C8_ModeSwitchResetsLatchAndTime ==
  autopilot_state_ # entry_state
    => /\ first_time_in_new_state_
       /\ time_in_current_state = 0

(* C9: in START, HOVER and LAND the first-time latch is set as long as     *)
(* reference_state_ has not been overwritten in this stay; the first-time  *)
(* block overwrites reference_state_ and the latched position from the     *)
(* estimate of that callback, and in land() restarts the ramp; the base    *)
(* controller is never handed a reference_state_ from an earlier stay.     *)
C9_ReferenceIsFromThisStay ==
  /\ (autopilot_state_ \in {START, HOVER, LAND} /\ ~reference_current)
       => first_time_in_new_state_
  /\ controller_input # "stale"
  /\ first_time_estimate.used
       => /\ callback = "stateEstimate"
          /\ DispatchState \in {START, HOVER, LAND}
          /\ DispatchState = START
               => initial_start_position_ = first_time_estimate.z
          /\ DispatchState = HOVER
               => reference_state_.z = first_time_estimate.z
          /\ DispatchState = LAND
               => /\ initial_land_position_ = first_time_estimate.z
                  /\ time_to_ramp_down_ => time_ramping_down = 0

C9_Witness ==
  /\ callback = "stateEstimate"
  /\ entry_state = LAND
  /\ first_time_estimate.used
  /\ first_time_estimate.z = MaxAltitude
  /\ controller_input = "current"
  /\ initial_land_position_ = MaxAltitude
  /\ reference_state_.z = 0
  /\ ~time_to_ramp_down_

(* C10 as the specification states it: a landing that only sees valid      *)
(* estimates is over within the descent time (latched landing altitude     *)
(* over start_land_velocity_) plus propeller_ramp_down_timeout_, here with *)
(* one period of the estimator on top.                                     *)
C10_LandOffWithinDescentTime ==
  (/\ callback = "stateEstimate"
   /\ entry_state = LAND
   /\ autopilot_state_ = LAND)
    => time_in_current_state <=
         initial_land_position_ \div start_land_velocity_
           + propeller_ramp_down_timeout_ + MaxDt

(* C10, amended: a landing that sees valid estimates ends in OFF, within   *)
(* optitrack_start_land_timeout_ plus propeller_ramp_down_timeout_ (and    *)
(* the periods of the estimator in between), not within the descent time.  *)
(* After a state estimate callback that stays in LAND the ramp is latched  *)
(* or the time in LAND is at most optitrack_start_land_timeout_, and a     *)
(* latched ramp has run for less than propeller_ramp_down_timeout_; a      *)
(* valid estimate leaves LAND for OFF only; and every such callback moves  *)
(* the landing on: the ramp's time grows once it is latched in this stay,  *)
(* before that the ramp is latched or the time in LAND grows.              *)
C10_LandOffAfterTimeoutAndRampDown ==
  /\ []((/\ callback = "stateEstimate"
         /\ entry_state = LAND
         /\ autopilot_state_ = LAND)
          => /\ time_to_ramp_down_
                  \/ time_in_current_state <= optitrack_start_land_timeout_
             /\ time_to_ramp_down_
                  => time_ramping_down < propeller_ramp_down_timeout_)
  /\ []((/\ callback = "stateEstimate"
         /\ entry_state = LAND
         /\ received_state_est_.valid)
          => autopilot_state_ \in {LAND, OFF})
  /\ [][(/\ autopilot_state_ = LAND
          /\ callback' = "stateEstimate"
          /\ autopilot_state_' = LAND)
           => IF time_to_ramp_down_ /\ ~first_time_in_new_state_
              THEN /\ time_to_ramp_down_'
                   /\ time_ramping_down' > time_ramping_down
              ELSE \/ time_to_ramp_down_'
                   \/ time_in_current_state' > time_in_current_state]_vars

C10_Witness ==
  /\ callback = "stateEstimate"
  /\ entry_state = LAND
  /\ autopilot_state_ = OFF
  /\ received_state_est_.valid
  /\ time_to_ramp_down_
  /\ time_ramping_down = propeller_ramp_down_timeout_
  /\ initial_land_position_ >= optitrack_land_drop_height_
  /\ reference_state_.z = 0

(* C11: once the ramp is latched in a stay in LAND, no later callback of   *)
(* that stay computes or transmits a thrust above the thrust transmitted   *)
(* last, whatever the base controller returns.  initial_drop_thrust_ is    *)
(* the thrust transmitted last: every transmission of the state estimate   *)
(* callback overwrites it and nothing else changes it.  A callback that    *)
(* follows a transmitting one directly transmits at most the same thrust.  *)
C11_RampThrustNeverIncreases ==
  /\ [](transmitted.by = "tick"
          => initial_drop_thrust_ = transmitted.cmd.collective_thrust)
  /\ [][initial_drop_thrust_' # initial_drop_thrust_
          => transmitted'.by = "tick"]_vars
  /\ [][(/\ autopilot_state_ = LAND
          /\ time_to_ramp_down_
          /\ ~first_time_in_new_state_
          /\ land_thrust'.tested)
           => /\ land_thrust'.value <= initial_drop_thrust_
              /\ transmitted'.by = "tick"
                   => transmitted'.cmd.collective_thrust
                        <= initial_drop_thrust_
              /\ transmitted.by = "tick"
                   => transmitted'.cmd.collective_thrust
                        <= transmitted.cmd.collective_thrust
              /\ autopilot_state_' = OFF <=> land_thrust'.value <= 0]_vars

C11_Witness ==
  /\ callback = "stateEstimate"
  /\ entry_state = LAND
  /\ autopilot_state_ = LAND
  /\ time_to_ramp_down_
  /\ time_ramping_down > 0
  /\ land_thrust.tested
  /\ land_thrust.value = 1
  /\ transmitted.by = "tick"
  /\ transmitted.cmd.collective_thrust = 1
  /\ initial_drop_thrust_ = 1

(* C12: during a stay in HOVER reference_state_ is written by the first    *)
(* state estimate callback of the stay only, from that callback's          *)
(* estimate; every later step that stays in HOVER leaves it unchanged and  *)
(* does not run the first-time block.  A state estimate callback with a    *)
(* valid estimate stays in HOVER.                                          *)
C12_HoverHoldsReference ==
  /\ [][(/\ autopilot_state_ = HOVER
          /\ callback' = "stateEstimate"
          /\ received_state_est_'.valid)
           => /\ autopilot_state_' = HOVER
              /\ ~first_time_in_new_state_'
              /\ controller_input' = "current"]_vars
  /\ [][(/\ autopilot_state_ = HOVER
          /\ autopilot_state_' = HOVER
          /\ ~first_time_in_new_state_)
           => /\ reference_state_' = reference_state_
              /\ ~first_time_estimate'.used
              /\ ~first_time_in_new_state_']_vars
  /\ [][(/\ autopilot_state_ = HOVER
          /\ autopilot_state_' = HOVER
          /\ first_time_in_new_state_)
           => IF callback' = "stateEstimate"
              THEN /\ first_time_estimate'.used
                   /\ reference_state_'.z = first_time_estimate'.z
              ELSE /\ reference_state_' = reference_state_
                   /\ first_time_in_new_state_']_vars

C12_Witness ==
  /\ callback = "stateEstimate"
  /\ entry_state = HOVER
  /\ autopilot_state_ = HOVER
  /\ received_state_est_.valid
  /\ ~first_time_estimate.used
  /\ ~first_time_in_new_state_
  /\ controller_input = "current"
  /\ reference_state_.z = MaxAltitude
  /\ time_in_current_state >= 2

(* C13 as the specification states it: COMMAND_FEEDTHROUGH is left only by *)
(* an off, land or start request or by low level feedback, never by a      *)
(* state estimate callback.                                                *)
C13_FeedthroughLeftOnlyByRequests ==
  (entry_state = COMMAND_FEEDTHROUGH /\ autopilot_state_ # COMMAND_FEEDTHROUGH)
    => callback \in {"off", "land", "start", "lowLevelFeedback"}

(* C13, amended: a state estimate callback with a valid estimate leaves    *)
(* the mode COMMAND_FEEDTHROUGH, one with an invalid estimate changes it   *)
(* to EMERGENCY_LAND; besides that only an off request (to OFF) and manual *)
(* low level feedback (to RC_MANUAL) change it: land and start requests    *)
(* and control command inputs leave it COMMAND_FEEDTHROUGH.                *)
C13_FeedthroughLeftByInvalidEstimate ==
  entry_state = COMMAND_FEEDTHROUGH
    => autopilot_state_ =
         CASE callback = "stateEstimate" ->
                IF received_state_est_.valid
                THEN COMMAND_FEEDTHROUGH
                ELSE EMERGENCY_LAND
           [] callback = "off" -> OFF
           [] callback = "lowLevelFeedback" ->
                IF feedback_rc_manual = "RC_MANUAL"
                THEN RC_MANUAL
                ELSE COMMAND_FEEDTHROUGH
           [] OTHER -> COMMAND_FEEDTHROUGH

C13_Witness ==
  /\ callback = "stateEstimate"
  /\ entry_state = COMMAND_FEEDTHROUGH
  /\ ~received_state_est_.valid
  /\ ~state_estimate_available_
  /\ autopilot_state_ = EMERGENCY_LAND
  /\ first_time_in_new_state_
  /\ time_in_current_state = 0

(* C14 as the specification states it: every step that leaves RC_MANUAL    *)
(* ends in OFF or BREAKING.                                                *)
C14_ManualLeftForOffOrBreaking ==
  (entry_state = RC_MANUAL /\ autopilot_state_ # RC_MANUAL)
    => autopilot_state_ \in {OFF, BREAKING}

(* C14, amended: a step that leaves RC_MANUAL ends in OFF, BREAKING or     *)
(* EMERGENCY_LAND.  Low level feedback that is not manual hands back to    *)
(* OFF or BREAKING, an off request gives OFF, a state estimate callback    *)
(* with an invalid estimate gives EMERGENCY_LAND; everything else leaves   *)
(* the mode RC_MANUAL.                                                     *)
C14_ManualLeftForOffBreakingOrEmergency ==
  entry_state = RC_MANUAL
    => autopilot_state_ =
         CASE callback = "stateEstimate" ->
                IF received_state_est_.valid
                THEN RC_MANUAL
                ELSE EMERGENCY_LAND
           [] callback = "off" -> OFF
           [] callback = "lowLevelFeedback" ->
                IF feedback_rc_manual = "RC_MANUAL"
                THEN RC_MANUAL
                ELSE IF state_before_rc_manual_flight_ = OFF
                     THEN OFF
                     ELSE BREAKING
           [] OTHER -> RC_MANUAL

C14_Witness ==
  /\ callback = "stateEstimate"
  /\ entry_state = RC_MANUAL
  /\ ~received_state_est_.valid
  /\ autopilot_state_ = EMERGENCY_LAND
  /\ transmitted = NoTransmission
  /\ initial_drop_thrust_ = RcManualThrust

(* C15: a state estimate callback that begins in EMERGENCY_LAND ends in    *)
(* HOVER if its estimate is valid and in EMERGENCY_LAND if it is not, and  *)
(* transmits nothing either way.  In particular the EMERGENCY_LAND a land  *)
(* request gives in HOVER in a relative frame is left for HOVER by the     *)
(* next state estimate callback with a valid estimate.                     *)
C15_EmergencyLandRecoversToHover ==
  /\ []((callback = "stateEstimate" /\ entry_state = EMERGENCY_LAND)
          => /\ autopilot_state_ = IF received_state_est_.valid
                                   THEN HOVER
                                   ELSE EMERGENCY_LAND
             /\ transmitted = NoTransmission)
  /\ [][(/\ callback = "land"
          /\ entry_state = HOVER
          /\ autopilot_state_ = EMERGENCY_LAND
          /\ callback' = "stateEstimate"
          /\ received_state_est_'.valid)
           => /\ autopilot_state_' = HOVER
              /\ first_time_in_new_state_']_vars

C15_Witness ==
  /\ callback = "stateEstimate"
  /\ entry_state = EMERGENCY_LAND
  /\ received_state_est_.valid
  /\ received_state_est_.coordinate_frame = "VISION"
  /\ autopilot_state_ = HOVER
  /\ first_time_in_new_state_
  /\ transmitted = NoTransmission

(* C16: the first state estimate callback of a stay in START whose         *)
(* estimated altitude is at or above optitrack_land_drop_height_ ends in   *)
(* HOVER and does not transmit the idle command; the idle command is       *)
(* transmitted only by start(), from a start altitude below that height    *)
(* and inside the idle window; no state estimate callback that ends in     *)
(* HOVER transmits the idle command.                                       *)
C16_AirborneStartSkipsIdle ==
  /\ (/\ callback = "stateEstimate"
      /\ DispatchState = START
      /\ first_time_estimate.used
      /\ first_time_estimate.z >= optitrack_land_drop_height_)
       => /\ autopilot_state_ = HOVER
          /\ transmitted.cmd # IdleCommand
  /\ transmitted.cmd = IdleCommand
       => /\ callback = "stateEstimate"
          /\ DispatchState = START
          /\ initial_start_position_ < optitrack_land_drop_height_
          /\ time_in_current_state < start_idle_duration_
  /\ (callback = "stateEstimate" /\ autopilot_state_ = HOVER)
       => transmitted.cmd # IdleCommand

(* The reference altitude start() compares with optitrack_start_height_ at *)
(* line 317 in the step to the next state: the altitude of the estimate in *)
(* the first callback of the stay, the stored reference in the later ones  *)
StartReferenceTested ==
  IF first_time_in_new_state_
  THEN initial_start_position_'
  ELSE reference_state_.z

(* C17: a takeoff from a start altitude below optitrack_land_drop_height_. *)
(* A state estimate callback in START at a time in the state below         *)
(* start_idle_duration_ transmits the idle command and stays in START; a   *)
(* later one that stays in START sets the reference altitude to the start  *)
(* altitude plus start_land_velocity_ times the time since the idle        *)
(* window and runs the base controller on it; the callback ends in HOVER   *)
(* exactly if the time in the state exceeds optitrack_start_land_timeout_  *)
(* or the reference altitude it began with has reached                     *)
(* optitrack_start_height_.  START is left for HOVER in the end: every     *)
(* callback that stays in START has a larger time in the state than the    *)
(* one before, and none above optitrack_start_land_timeout_.               *)
C17_TakeoffRampsToHover ==
  /\ [][(/\ autopilot_state_ = START
          /\ start_time'.tested
          /\ initial_start_position_' < optitrack_land_drop_height_)
           => /\ autopilot_state_' \in {START, HOVER}
              /\ start_time'.value < start_idle_duration_
                   => /\ autopilot_state_' = START
                      /\ transmitted' = [by |-> "tick", cmd |-> IdleCommand]
              /\ (/\ start_time'.value >= start_idle_duration_
                  /\ autopilot_state_' = START)
                   => /\ reference_state_'.z =
                           initial_start_position_'
                             + start_land_velocity_
                                 * (start_time'.value - start_idle_duration_)
                      /\ controller_input' = "current"
              /\ autopilot_state_' = HOVER
                   <=> \/ start_time'.value > optitrack_start_land_timeout_
                       \/ StartReferenceTested >= optitrack_start_height_]_vars
  /\ [][(/\ autopilot_state_ = START
          /\ callback' = "stateEstimate"
          /\ autopilot_state_' = START)
           => /\ time_in_current_state' > time_in_current_state
              /\ time_in_current_state' <= optitrack_start_land_timeout_]_vars

C17_Witness ==
  /\ callback = "stateEstimate"
  /\ entry_state = START
  /\ autopilot_state_ = HOVER
  /\ start_time.tested
  /\ start_time.value > optitrack_start_land_timeout_
  /\ initial_start_position_ < optitrack_land_drop_height_
  /\ reference_state_.z < optitrack_start_height_
  /\ controller_input = "current"

(* C18: a state estimate callback that begins in OFF, with a valid or an   *)
(* invalid estimate, ends in OFF and transmits one command, the zero       *)
(* command: not armed, zero body rates, zero thrust.  So state estimate    *)
(* callbacks alone never leave OFF.                                        *)
C18_OffTickStaysOffAndSendsZero ==
  (callback = "stateEstimate" /\ entry_state = OFF)
    => /\ autopilot_state_ = OFF
       /\ transmitted.by = "tick"
       /\ ~transmitted.cmd.armed
       /\ transmitted.cmd.bodyrates = "ZERO"
       /\ transmitted.cmd.collective_thrust = 0
       /\ initial_drop_thrust_ = 0

C18_Witness ==
  /\ callback = "stateEstimate"
  /\ entry_state = OFF
  /\ ~received_state_est_.valid
  /\ autopilot_state_ = OFF
  /\ transmitted = [by |-> "tick", cmd |-> ZeroCommand]
  /\ time_in_current_state = 1

(* C19: land() runs in every state estimate callback that begins in LAND   *)
(* with a valid estimate, and only there.  The callback ends in OFF        *)
(* exactly if the thrust land() computed is at most zero, and then it      *)
(* transmits the zero command; otherwise it ends in LAND and what it       *)
(* transmits carries the computed thrust.                                  *)
C19_LandOffExactlyAtZeroThrust ==
  /\ land_thrust.tested
       <=> /\ callback = "stateEstimate"
           /\ entry_state = LAND
           /\ received_state_est_.valid
  /\ land_thrust.tested
       => IF land_thrust.value <= 0
          THEN /\ autopilot_state_ = OFF
               /\ transmitted = [by |-> "tick", cmd |-> ZeroCommand]
          ELSE /\ autopilot_state_ = LAND
               /\ transmitted.by = "tick"
                    => /\ transmitted.cmd.collective_thrust = land_thrust.value
                       /\ transmitted.cmd.armed

C19_Witness ==
  /\ callback = "stateEstimate"
  /\ entry_state = LAND
  /\ autopilot_state_ = OFF
  /\ land_thrust.tested
  /\ land_thrust.value = 0
  /\ ~time_to_ramp_down_
  /\ transmitted = [by |-> "tick", cmd |-> ZeroCommand]

(* C20: the remembered mode before manual flight is OFF in every reachable *)
(* state, also right after RC_MANUAL has been entered from a flying mode;  *)
(* so the hand-back from RC_MANUAL by low level feedback gives OFF, and    *)
(* BREAKING, GO_TO_POSE, VELOCITY_CONTROL, REFERENCE_CONTROL and           *)
(* TRAJECTORY_CONTROL are never the mode.                                  *)
C20_ModeBeforeManualIsAlwaysOff ==
  /\ state_before_rc_manual_flight_ = OFF
  /\ (/\ callback = "lowLevelFeedback"
      /\ entry_state = RC_MANUAL
      /\ feedback_rc_manual = "AUTONOMOUS")
       => autopilot_state_ = OFF
  /\ autopilot_state_ \notin {BREAKING, GO_TO_POSE, VELOCITY_CONTROL,
                              REFERENCE_CONTROL, TRAJECTORY_CONTROL}
  /\ entry_state \notin {BREAKING, GO_TO_POSE, VELOCITY_CONTROL,
                         REFERENCE_CONTROL, TRAJECTORY_CONTROL}

C20_Witness ==
  /\ callback = "lowLevelFeedback"
  /\ feedback_rc_manual = "RC_MANUAL"
  /\ entry_state = HOVER
  /\ autopilot_state_ = RC_MANUAL
  /\ state_before_rc_manual_flight_ = OFF
  /\ ~first_time_in_new_state_

====
